---- MODULE Spec2Model ----
(***************************************************************************)
(* Model of the airline back-office resilience and orchestration layer:    *)
(*   - CircuitBreaker (services/reservation-service/circuit_breaker.py)    *)
(*   - check_route_permission (api-gateway/main.py)                        *)
(*   - create_reservation / update_reservation_status                      *)
(*     (services/reservation-service/main.py)                              *)
(* The specifications share the module: Spec (the breaker), SpecAuth (the  *)
(* gateway's authorization decision), SpecRes (the reservation handlers,   *)
(* two requests at a time), SpecResSeq (one request at a time), SpecSeats  *)
(* (creations in a row), SpecHttp, SpecThreads and SpecCounters (the       *)
(* breaker over HTTP and from pool threads), SpecLayers (gateway beside    *)
(* the handlers) and SpecLive (the breaker in a run without end).          *)
(***************************************************************************)
EXTENDS Integers, Sequences, FiniteSets, TLC

VARIABLES
    \* --- CircuitBreaker fields (circuit_breaker.py:17-25) ---
    state, failure_count, last_failure_time, success_count, total_requests,
    \* --- environment of the breaker ---
    now,          \* time.time(), in clock ticks
    pc,           \* per caller: where it is inside call / async_call
    invocations,  \* number of times the wrapped operation has been started
    streak,       \* counted failures reported since the last reported success
    last_event,   \* the last breaker step taken: what happened, in which state
    stats,        \* what get_stats returned last, since the last call
    stats_queries,\* number of get_stats queries since the last call
    loaded,       \* per thread: the failure_count it has read inside "+= 1"
    \* --- api-gateway: one inbound request inside proxy_request ---
    request,      \* [path, method, claims] of the inbound request
    gw_pc,        \* "received", "forwarding" or "done"
    gw_decision,  \* outcome of the permission check ("none": not yet made)
    gw_status,    \* status code answered to the client (0: none yet)
    gw_calls,     \* requests sent to the downstream service
    gw_outcome,   \* what http_client.request met (NoOutcome: not called)
    \* --- reservation-service ---
    reservations,     \* the rows of table "reservations", in insertion order
    handlers,         \* per request slot: the handler running in it
    available_seats,  \* flight-service: Flight.available_seats of the flight
    seat_calls,       \* per reservation code: seat updates sent, by sign
    response,         \* the last answer sent to a client
    started           \* number of requests accepted so far

cbVars == <<state, failure_count, last_failure_time, success_count,
            total_requests, now, pc, invocations, streak, last_event,
            stats, stats_queries, loaded>>

gwVars == <<request, gw_pc, gw_decision, gw_status, gw_calls, gw_outcome>>

resVars == <<reservations, handlers, available_seats, seat_calls, response, started>>

vars == <<cbVars, gwVars, resVars>>

(***************************************************************************)
(* Bounds                                                                  *)
(***************************************************************************)
NumCallers == 2
MaxTime == 4
MaxRequests == 6
\* get_stats queries between two calls
MaxQueries == 2
\* reservation-service: rows in the table, requests accepted
MaxReservations == 2
MaxStarted == 4
\* creations in a row on one flight
MaxCreations == 7
\* new passengers a request can come from at any time
MaxNewcomers == 2
\* wrapped operations started by threads that race on the request counter
MaxRacing == 4

Callers == 1..NumCallers

(***************************************************************************)
(* CircuitBreaker                                                          *)
(***************************************************************************)
CLOSED == "closed"
OPEN == "open"
HALF_OPEN == "half_open"
CircuitState == {CLOSED, OPEN, HALF_OPEN}

\* database_circuit_breaker = CircuitBreaker(failure_threshold=3, ...)
failure_threshold == 3
\* recovery_timeout of the instance, in clock ticks
recovery_timeout == 2

\* last_failure_time = None
None == -1

\* _should_attempt_reset: (time.time() - self.last_failure_time) > self.recovery_timeout
\* the reset is attempted one tick too late
_should_attempt_reset_bad_late == (now - last_failure_time) > recovery_timeout + 1
_should_attempt_reset == (now - last_failure_time) > recovery_timeout

\* The state check at the head of call / async_call: the state the breaker is
\* left in, and whether the caller is let through to the wrapped operation.
entry_state ==
    IF state = OPEN /\ _should_attempt_reset THEN HALF_OPEN ELSE state
\* the OPEN check never raises
entry_rejected_bad_never ==
    FALSE
entry_rejected ==
    state = OPEN /\ ~_should_attempt_reset

\* _on_success: the new (state, failure_count)
\* the HALF_OPEN -> CLOSED transition is forgotten
_on_success_state_bad_stays ==
    state
_on_success_state ==
    IF state = HALF_OPEN THEN CLOSED ELSE state

\* _on_failure: the new state, given the incremented failure_count
\* a re-trip from HALF_OPEN is forgotten
_on_failure_state_bad_closed_only(fc) ==
    IF fc >= failure_threshold /\ state = CLOSED THEN OPEN ELSE state
_on_failure_state(fc) ==
    IF fc >= failure_threshold
    THEN (IF state # OPEN THEN OPEN ELSE state)
    ELSE state

\* what make_request met, for the steps of http_request; NoOutcome elsewhere
NoOutcome == [kind |-> "none", status |-> 0]

Event(op, c) == [op |-> op, caller |-> c, pre |-> state,
                 pre_count |-> failure_count,
                 elapsed |-> IF last_failure_time = None THEN FALSE
                             ELSE _should_attempt_reset,
                 cause |-> NoOutcome]

\* get_stats has not been queried since the last call
NoStats == [state |-> "none", failure_count |-> 0, success_count |-> 0,
            total_requests |-> 0, uptime_percentage |-> 0,
            last_failure_time |-> None]

\* call (sync), up to the start of the wrapped operation:
\* total_requests += 1; the OPEN check; then either raise or invoke func.
call(c) ==
    /\ pc[c] = "idle"
    /\ total_requests < MaxRequests
    /\ total_requests' = total_requests + 1
    /\ state' = entry_state
    /\ IF entry_rejected
       THEN /\ pc' = pc
            /\ invocations' = invocations
            /\ last_event' = Event("rejected", c)
       ELSE /\ pc' = [pc EXCEPT ![c] = "call"]
            /\ invocations' = invocations + 1
            /\ last_event' = Event("invoked", c)
    /\ UNCHANGED <<failure_count, last_failure_time, success_count, now, streak>>
    /\ UNCHANGED <<stats, stats_queries, loaded>>
    /\ UNCHANGED <<gwVars, resVars>>

\* The same check as written in async_call (circuit_breaker.py:52-57)
async_entry_state ==
    IF state = OPEN
    THEN (IF _should_attempt_reset THEN HALF_OPEN ELSE state)
    ELSE state
\* async_call raises as soon as the breaker is OPEN, whatever the time
async_entry_rejected_bad_no_reset ==
    state = OPEN
async_entry_rejected ==
    IF state = OPEN THEN ~_should_attempt_reset ELSE FALSE

\* async_call, up to the await of the wrapped operation
async_call(c) ==
    /\ pc[c] = "idle"
    /\ total_requests < MaxRequests
    /\ total_requests' = total_requests + 1
    /\ state' = async_entry_state
    /\ IF async_entry_rejected
       THEN /\ pc' = pc
            /\ invocations' = invocations
            /\ last_event' = Event("rejected", c)
       ELSE /\ pc' = [pc EXCEPT ![c] = "async_call"]
            /\ invocations' = invocations + 1
            /\ last_event' = Event("invoked", c)
    /\ UNCHANGED <<failure_count, last_failure_time, success_count, now, streak>>
    /\ UNCHANGED <<stats, stats_queries, loaded>>
    /\ UNCHANGED <<gwVars, resVars>>

\* result = func(...) returned; self._on_success(); return result
\* _on_success forgets to reset failure_count
OperationSucceeds_bad_no_reset(c) ==
    /\ pc[c] \in {"call", "async_call"}
    /\ failure_count' = failure_count
    /\ success_count' = success_count + 1
    /\ state' = _on_success_state
    /\ pc' = [pc EXCEPT ![c] = "idle"]
    /\ streak' = 0
    /\ last_event' = Event("success", c)
    /\ UNCHANGED <<last_failure_time, total_requests, now, invocations>>
    /\ UNCHANGED <<stats, stats_queries, loaded>>
    /\ UNCHANGED <<gwVars, resVars>>
OperationSucceeds(c) ==
    /\ pc[c] \in {"call", "async_call"}
    /\ failure_count' = 0
    /\ success_count' = success_count + 1
    /\ state' = _on_success_state
    /\ pc' = [pc EXCEPT ![c] = "idle"]
    /\ streak' = 0
    /\ last_event' = Event("success", c)
    /\ UNCHANGED <<last_failure_time, total_requests, now, invocations>>
    /\ UNCHANGED <<stats, stats_queries, loaded>>
    /\ UNCHANGED <<gwVars, resVars>>

\* func raised self.expected_exception; self._on_failure(); raise e
OperationFails(c) ==
    /\ pc[c] \in {"call", "async_call"}
    /\ failure_count' = failure_count + 1
    /\ last_failure_time' = now
    /\ state' = _on_failure_state(failure_count + 1)
    /\ pc' = [pc EXCEPT ![c] = "idle"]
    /\ streak' = streak + 1
    /\ last_event' = Event("failure", c)
    /\ UNCHANGED <<success_count, total_requests, now, invocations>>
    /\ UNCHANGED <<stats, stats_queries, loaded>>
    /\ UNCHANGED <<gwVars, resVars>>

\* func raised something that is not an expected_exception: it propagates,
\* neither _on_success nor _on_failure runs
\* every exception is caught and counted, whatever its class
OperationRaisesOther_bad_counted(c) ==
    /\ pc[c] \in {"call", "async_call"}
    /\ failure_count' = failure_count + 1
    /\ last_failure_time' = now
    /\ state' = _on_failure_state(failure_count + 1)
    /\ pc' = [pc EXCEPT ![c] = "idle"]
    /\ last_event' = Event("other_error", c)
    /\ UNCHANGED <<success_count, total_requests, now, invocations, streak>>
    /\ UNCHANGED <<stats, stats_queries, loaded>>
    /\ UNCHANGED <<gwVars, resVars>>
OperationRaisesOther(c) ==
    /\ pc[c] \in {"call", "async_call"}
    /\ pc' = [pc EXCEPT ![c] = "idle"]
    /\ last_event' = Event("other_error", c)
    /\ UNCHANGED <<state, failure_count, last_failure_time, success_count,
                   total_requests, now, invocations, streak>>
    /\ UNCHANGED <<stats, stats_queries, loaded>>
    /\ UNCHANGED <<gwVars, resVars>>

\* time.time() advances, by any amount, between two steps of the callers
Tick ==
    /\ now < MaxTime
    /\ \E d \in 1..(MaxTime - now) : now' = now + d
    /\ last_event' = Event("tick", 0)
    /\ UNCHANGED <<state, failure_count, last_failure_time, success_count,
                   total_requests, pc, invocations, streak>>
    /\ UNCHANGED <<stats, stats_queries, loaded>>
    /\ UNCHANGED <<gwVars, resVars>>

\* CircuitBreaker.__init__
InitCB ==
    /\ state = CLOSED
    /\ failure_count = 0
    /\ last_failure_time = None
    /\ success_count = 0
    /\ total_requests = 0
    /\ now = 0
    /\ pc = [c \in Callers |-> "idle"]
    /\ invocations = 0
    /\ streak = 0
    /\ last_event = [op |-> "init", caller |-> 0, pre |-> CLOSED,
                     pre_count |-> 0, elapsed |-> FALSE, cause |-> NoOutcome]
    /\ stats = NoStats
    /\ stats_queries = 0
    /\ loaded = [c \in Callers |-> 0]

NextCB ==
    \/ Tick
    \/ \E c \in Callers : call(c)
    \/ \E c \in Callers : async_call(c)
    \/ \E c \in Callers : OperationSucceeds(c)
    \/ \E c \in Callers : OperationFails(c)
    \/ \E c \in Callers : OperationRaisesOther(c)

(***************************************************************************)
(* call from the threads of the pool: _on_failure statement by statement   *)
(***************************************************************************)
\* get_reservations is a sync handler: it runs database_circuit_breaker.call
\* in a pool thread, and so do the requests handled at the same time.
\* _on_failure takes no lock; "self.failure_count += 1" is a read followed by
\* a write, and another thread can run between the two.

\* func raised; self.failure_count is read
_on_failure_load(c) ==
    /\ pc[c] = "call"
    /\ loaded' = [loaded EXCEPT ![c] = failure_count]
    /\ pc' = [pc EXCEPT ![c] = "on_failure_store"]
    /\ last_event' = Event("failure_read", c)
    /\ UNCHANGED <<state, failure_count, last_failure_time, success_count,
                   total_requests, now, invocations, streak>>
    /\ UNCHANGED <<stats, stats_queries>>
    /\ UNCHANGED <<gwVars, resVars>>

\* the value read, plus one, is written; self.last_failure_time = time.time()
_on_failure_store(c) ==
    /\ pc[c] = "on_failure_store"
    /\ failure_count' = loaded[c] + 1
    /\ last_failure_time' = now
    /\ streak' = streak + 1
    /\ pc' = [pc EXCEPT ![c] = "on_failure_check"]
    /\ last_event' = Event("failure_written", c)
    /\ UNCHANGED <<state, success_count, total_requests, now, invocations>>
    /\ UNCHANGED <<stats, stats_queries, loaded>>
    /\ UNCHANGED <<gwVars, resVars>>

\* if self.failure_count >= self.failure_threshold: ... ; raise e
_on_failure_check(c) ==
    /\ pc[c] = "on_failure_check"
    /\ state' = _on_failure_state(failure_count)
    /\ pc' = [pc EXCEPT ![c] = "idle"]
    /\ last_event' = Event("failure", c)
    /\ UNCHANGED <<failure_count, last_failure_time, success_count,
                   total_requests, now, invocations, streak>>
    /\ UNCHANGED <<stats, stats_queries, loaded>>
    /\ UNCHANGED <<gwVars, resVars>>

NextThreads ==
    \/ Tick
    \/ \E c \in Callers : call(c)
    \/ \E c \in Callers : _on_failure_load(c)
    \/ \E c \in Callers : _on_failure_store(c)
    \/ \E c \in Callers : _on_failure_check(c)

\* The head of call takes no lock either: "self.total_requests += 1" is a
\* read followed by a write.

\* call is entered; self.total_requests is read
call_load(c) ==
    /\ pc[c] = "idle"
    /\ total_requests < MaxRequests
    /\ invocations + Cardinality({d \in Callers : pc[d] = "call_store"}) < MaxRacing
    /\ loaded' = [loaded EXCEPT ![c] = total_requests]
    /\ pc' = [pc EXCEPT ![c] = "call_store"]
    /\ last_event' = Event("request_read", c)
    /\ UNCHANGED <<state, failure_count, last_failure_time, success_count,
                   total_requests, now, invocations, streak>>
    /\ UNCHANGED <<stats, stats_queries>>
    /\ UNCHANGED <<gwVars, resVars>>

\* the value read, plus one, is written; then the OPEN check, and either
\* the exception or the start of the wrapped operation
call_store(c) ==
    /\ pc[c] = "call_store"
    /\ total_requests' = loaded[c] + 1
    /\ state' = entry_state
    /\ IF entry_rejected
       THEN /\ pc' = [pc EXCEPT ![c] = "idle"]
            /\ invocations' = invocations
            /\ last_event' = Event("rejected", c)
       ELSE /\ pc' = [pc EXCEPT ![c] = "call"]
            /\ invocations' = invocations + 1
            /\ last_event' = Event("invoked", c)
    /\ UNCHANGED <<failure_count, last_failure_time, success_count, now, streak>>
    /\ UNCHANGED <<stats, stats_queries, loaded>>
    /\ UNCHANGED <<gwVars, resVars>>

NextCounters ==
    \/ Tick
    \/ \E c \in Callers : call_load(c)
    \/ \E c \in Callers : call_store(c)
    \/ \E c \in Callers : OperationSucceeds(c)
    \/ \E c \in Callers : OperationFails(c)

(***************************************************************************)
(* HTTPCircuitBreaker.http_request and CircuitBreaker.get_stats            *)
(***************************************************************************)
\* What client.request meets: a response with a status code, or an exception
\* of httpx raised before any response is there.
HttpOutcomes ==
    {[kind |-> "response", status |-> st] : st \in {200, 404, 500}}
    \cup {[kind |-> k, status |-> 0] : k \in {"TimeoutException", "ConnectError", "InvalidURL"}}

\* make_request: the exception it raises ("none": it returns the response)
make_request(o) ==
    IF o.kind = "response"
    THEN (IF o.status >= 400 THEN "HTTPStatusError" ELSE "none")
    ELSE o.kind

\* isinstance(e, httpx.HTTPError), the expected_exception of HTTPCircuitBreaker:
\* HTTPStatusError and the transport errors derive from it, InvalidURL does not
is_expected_exception(e) ==
    e \in {"HTTPStatusError", "TimeoutException", "ConnectError"}

\* http_request, up to the await of client.request: it is async_call(make_request)
http_request(c) ==
    /\ pc[c] = "idle"
    /\ total_requests < MaxRequests
    /\ total_requests' = total_requests + 1
    /\ state' = async_entry_state
    /\ IF async_entry_rejected
       THEN /\ pc' = pc
            /\ invocations' = invocations
            /\ last_event' = Event("rejected", c)
       ELSE /\ pc' = [pc EXCEPT ![c] = "http_request"]
            /\ invocations' = invocations + 1
            /\ last_event' = Event("invoked", c)
    /\ stats' = NoStats
    /\ stats_queries' = 0
    /\ UNCHANGED loaded
    /\ UNCHANGED <<failure_count, last_failure_time, success_count, now, streak>>
    /\ UNCHANGED <<gwVars, resVars>>

\* make_request is over: async_call reports its outcome
http_request_completes(c) ==
    /\ pc[c] = "http_request"
    /\ \E o \in HttpOutcomes :
         LET e == make_request(o)
             op == IF e = "none" THEN "success"
                   ELSE IF is_expected_exception(e) THEN "failure"
                   ELSE "other_error"
         IN /\ failure_count' = CASE op = "success" -> 0
                                   [] op = "failure" -> failure_count + 1
                                   [] OTHER -> failure_count
            /\ success_count' = IF op = "success" THEN success_count + 1
                                ELSE success_count
            /\ last_failure_time' = IF op = "failure" THEN now
                                    ELSE last_failure_time
            /\ state' = CASE op = "success" -> _on_success_state
                           [] op = "failure" -> _on_failure_state(failure_count + 1)
                           [] OTHER -> state
            /\ streak' = CASE op = "success" -> 0
                            [] op = "failure" -> streak + 1
                            [] OTHER -> streak
            /\ last_event' = [Event(op, c) EXCEPT !.cause = o]
    /\ pc' = [pc EXCEPT ![c] = "idle"]
    /\ stats' = NoStats
    /\ stats_queries' = 0
    /\ UNCHANGED loaded
    /\ UNCHANGED <<total_requests, now, invocations>>
    /\ UNCHANGED <<gwVars, resVars>>

\* round(success_count / total_requests * 100, 2), in hundredths of a percent
uptime_percentage ==
    IF total_requests > 0
    THEN (2 * 10000 * success_count + total_requests) \div (2 * total_requests)
    ELSE 10000

\* get_stats: the dictionary it returns
\* the query is counted as a request
get_stats_bad_counts_itself ==
    /\ stats_queries < MaxQueries
    /\ total_requests < MaxRequests
    /\ total_requests' = total_requests + 1
    /\ stats' = [state |-> state, failure_count |-> failure_count,
                 success_count |-> success_count,
                 total_requests |-> total_requests + 1,
                 uptime_percentage |-> uptime_percentage,
                 last_failure_time |-> last_failure_time]
    /\ stats_queries' = stats_queries + 1
    /\ UNCHANGED loaded
    /\ last_event' = Event("get_stats", 0)
    /\ UNCHANGED <<state, failure_count, last_failure_time, success_count,
                   now, pc, invocations, streak>>
    /\ UNCHANGED <<gwVars, resVars>>
get_stats ==
    /\ stats_queries < MaxQueries
    /\ stats' = [state |-> state, failure_count |-> failure_count,
                 success_count |-> success_count,
                 total_requests |-> total_requests,
                 uptime_percentage |-> uptime_percentage,
                 last_failure_time |-> last_failure_time]
    /\ stats_queries' = stats_queries + 1
    /\ UNCHANGED loaded
    /\ last_event' = Event("get_stats", 0)
    /\ UNCHANGED <<state, failure_count, last_failure_time, success_count,
                   total_requests, now, pc, invocations, streak>>
    /\ UNCHANGED <<gwVars, resVars>>

NextHttp ==
    \/ Tick
    \/ \E c \in Callers : http_request(c)
    \/ \E c \in Callers : http_request_completes(c)
    \/ get_stats


(***************************************************************************)
(* api-gateway: check_route_permission and proxy_request                   *)
(***************************************************************************)
\* A path is a sequence of pieces of text; str.startswith is the prefix
\* relation on the concatenated text.  The pieces are chosen so that no piece
\* is a textual prefix of another, hence prefix on pieces = prefix on text.
StartsWith(path, route) ==
    /\ Len(route) <= Len(path)
    /\ SubSeq(path, 1, Len(route)) = route

Api(resource) == <<"/", "api/v1/", resource>>

\* public_routes = ["/health", "/", "/api/v1/auth/login", "/api/v1/auth/register"]
public_routes ==
    << <<"/", "health">>, <<"/">>, Api("auth/login"), Api("auth/register") >>

\* the routes whose GET is public
public_get_routes ==
    << Api("flights"), Api("airports"), Api("aircraft"), Api("crew") >>

Roles == {"admin", "operator", "agent", "passenger"}
Methods == {"GET", "POST", "PUT", "DELETE", "PATCH"}

\* a flat role list applies to every method
Flat(roles) == [kind |-> "list", roles |-> roles, methods |-> {},
                by_method |-> [m \in Methods |-> {}]]
\* a dict lists the roles of the methods it has a key for
PerMethod(post, put, delete) ==
    [kind |-> "dict", roles |-> {}, methods |-> {"POST", "PUT", "DELETE"},
     by_method |-> [m \in Methods |->
                      CASE m = "POST" -> post
                        [] m = "PUT" -> put
                        [] m = "DELETE" -> delete
                        [] OTHER -> {}]]

\* PROTECTED_ROUTES, in the dict's insertion order
PROTECTED_ROUTES ==
    << [route |-> Api("users"), permissions |-> Flat({"admin"})],
       [route |-> Api("flights"),
        permissions |-> PerMethod({"admin", "operator"}, {"admin", "operator"}, {"admin"})],
       [route |-> Api("passengers"),
        permissions |-> PerMethod({"admin", "agent"}, {"admin", "agent"}, {"admin"})],
       [route |-> Api("reservations"),
        permissions |-> PerMethod({"admin", "agent"}, {"admin", "agent"}, {"admin"})],
       [route |-> Api("airports"),
        permissions |-> PerMethod({"admin"}, {"admin"}, {"admin"})],
       [route |-> Api("aircraft"),
        permissions |-> PerMethod({"admin"}, {"admin", "operator"}, {"admin"})],
       [route |-> Api("crew"),
        permissions |-> PerMethod({"admin"}, {"admin"}, {"admin"})] >>

\* user_data = None
NoClaims == [present |-> FALSE, role |-> "none"]
Claims(role) == [present |-> TRUE, role |-> role]

\* permissions.get(method, permissions.get("GET", []))
method_roles(permissions, method) ==
    IF method \in permissions.methods
    THEN permissions.by_method[method]
    ELSE IF "GET" \in permissions.methods
         THEN permissions.by_method["GET"]
         ELSE {}

\* the for loop over PROTECTED_ROUTES: the first matching route decides
protected_decision(path, method, user_role) ==
    LET matching == {i \in 1..Len(PROTECTED_ROUTES) :
                        StartsWith(path, PROTECTED_ROUTES[i].route)}
    IN  IF matching = {}
        THEN TRUE
        ELSE LET i == CHOOSE j \in matching : \A k \in matching : j <= k
                 permissions == PROTECTED_ROUTES[i].permissions
             IN  IF permissions.kind = "dict"
                 THEN user_role \in method_roles(permissions, method)
                 ELSE user_role \in permissions.roles

\* any(path.startswith(route) for route in public_routes)
\* the path is compared with == instead of startswith
is_public_route_bad_exact(path) ==
    \E i \in 1..Len(public_routes) : path = public_routes[i]
is_public_route(path) ==
    \E i \in 1..Len(public_routes) : StartsWith(path, public_routes[i])

is_public_get(path, method) ==
    /\ method = "GET"
    /\ \E i \in 1..Len(public_get_routes) : StartsWith(path, public_get_routes[i])

\* the role table is consulted before the admin rule and the public rules
check_route_permission_bad_table_first(path, method, user_data) ==
    IF user_data.present
       /\ \E i \in 1..Len(PROTECTED_ROUTES) : StartsWith(path, PROTECTED_ROUTES[i].route)
    THEN protected_decision(path, method, user_data.role)
    ELSE IF is_public_route(path) THEN TRUE
    ELSE IF is_public_get(path, method) THEN TRUE
    ELSE IF ~user_data.present THEN FALSE
    ELSE IF user_data.role = "admin" THEN TRUE
    ELSE protected_decision(path, method, user_data.role)
check_route_permission(path, method, user_data) ==
    IF is_public_route(path) THEN TRUE
    ELSE IF is_public_get(path, method) THEN TRUE
    ELSE IF ~user_data.present THEN FALSE
    ELSE IF user_data.role = "admin" THEN TRUE
    ELSE protected_decision(path, method, user_data.role)

\* the outcome of the permission check as proxy_request answers it:
\* allowed, 401 without claims, 403 with claims
\* a request without a token is turned away before the check is made
authorize_bad_token_first(path, method, user_data) ==
    IF ~user_data.present THEN "Unauthenticated"
    ELSE IF check_route_permission(path, method, user_data) THEN "Allow"
    ELSE "Forbidden"
authorize(path, method, user_data) ==
    IF check_route_permission(path, method, user_data) THEN "Allow"
    ELSE IF ~user_data.present THEN "Unauthenticated"
    ELSE "Forbidden"

\* The paths the gateway's route handlers hand to proxy_request
Resources == {"users", "flights", "passengers", "reservations",
              "airports", "aircraft", "crew"}
Paths ==
    {Api(r) : r \in Resources}
    \cup {Api(r) \o <<"/x">> : r \in Resources}
    \cup {Api("auth/login"), Api("auth/register"), Api("auth/me"),
          Api("circuit-breaker/stats")}

\* the path lies under one of the given resources
Under(path, resources) == \E r \in resources : StartsWith(path, Api(r))

\* the methods of the route handler that takes the path (api_route methods=...)
route_methods(path) ==
    IF path = Api("circuit-breaker/stats") THEN {"GET"}
    ELSE IF path \in {Api("auth/login"), Api("auth/register"), Api("auth/me")}
    THEN {"GET", "POST", "PUT", "DELETE"}
    ELSE IF Len(path) = 3 THEN {"GET", "POST"}
    ELSE IF Under(path, {"aircraft", "crew"})
    THEN {"GET", "POST", "PUT", "DELETE", "PATCH"}
    ELSE {"GET", "POST", "PUT", "DELETE"}

\* the outcomes of http_client.request
DownstreamOutcomes ==
    {[kind |-> "response", status |-> st] : st \in {200, 404, 500}}
    \cup {[kind |-> "RequestError", status |-> 0],
          [kind |-> "Exception", status |-> 0]}

\* proxy_request up to the permission check: 401 / 403, or go on to forward
\* a request with claims on a path no route of PROTECTED_ROUTES matches is
\* turned away before the permission check
gateway_authorize_bad_default_closed ==
    /\ gw_pc = "received"
    /\ LET listed == \E i \in 1..Len(PROTECTED_ROUTES) :
                         StartsWith(request.path, PROTECTED_ROUTES[i].route)
           decision == IF request.claims.present /\ ~listed THEN "Forbidden"
                       ELSE authorize(request.path, request.method, request.claims)
       IN  /\ gw_decision' = decision
           /\ CASE decision = "Allow" ->
                     /\ gw_pc' = "forwarding"
                     /\ gw_status' = gw_status
                [] decision = "Unauthenticated" ->
                     /\ gw_pc' = "done"
                     /\ gw_status' = 401
                [] decision = "Forbidden" ->
                     /\ gw_pc' = "done"
                     /\ gw_status' = 403
    /\ UNCHANGED <<request, gw_calls, gw_outcome>>
    /\ UNCHANGED <<cbVars, resVars>>
gateway_authorize ==
    /\ gw_pc = "received"
    /\ LET decision == authorize(request.path, request.method, request.claims)
       IN  /\ gw_decision' = decision
           /\ CASE decision = "Allow" ->
                     /\ gw_pc' = "forwarding"
                     /\ gw_status' = gw_status
                [] decision = "Unauthenticated" ->
                     /\ gw_pc' = "done"
                     /\ gw_status' = 401
                [] decision = "Forbidden" ->
                     /\ gw_pc' = "done"
                     /\ gw_status' = 403
    /\ UNCHANGED <<request, gw_calls, gw_outcome>>
    /\ UNCHANGED <<cbVars, resVars>>

\* proxy_request from http_client.request to the answer
\* a request that failed in transport is sent a second time
gateway_forward_bad_retries ==
    /\ gw_pc = "forwarding"
    /\ gw_calls' = gw_calls + 1
    /\ \E outcome \in DownstreamOutcomes :
          /\ gw_outcome' = outcome
          /\ IF outcome.kind = "RequestError" /\ gw_calls = 0
             THEN /\ gw_status' = gw_status
                  /\ gw_pc' = "forwarding"
             ELSE /\ gw_status' = CASE outcome.kind = "RequestError" -> 503
                                     [] outcome.kind = "Exception" -> 500
                                     [] OTHER -> outcome.status
                  /\ gw_pc' = "done"
    /\ UNCHANGED <<request, gw_decision>>
    /\ UNCHANGED <<cbVars, resVars>>
gateway_forward ==
    /\ gw_pc = "forwarding"
    /\ gw_calls' = gw_calls + 1
    /\ \E outcome \in DownstreamOutcomes :
          /\ gw_outcome' = outcome
          /\ gw_status' = CASE outcome.kind = "RequestError" -> 503
                            [] outcome.kind = "Exception" -> 500
                            [] OTHER -> outcome.status
    /\ gw_pc' = "done"
    /\ UNCHANGED <<request, gw_decision>>
    /\ UNCHANGED <<cbVars, resVars>>

GatewayIdle ==
    /\ request = [path |-> <<"/">>, method |-> "GET", claims |-> NoClaims]
    /\ gw_pc = "done"
    /\ gw_decision = "none"
    /\ gw_status = 0
    /\ gw_calls = 0
    /\ gw_outcome = NoOutcome

InitGateway ==
    /\ request \in [path : Paths, method : Methods,
                    claims : {NoClaims} \cup {Claims(r) : r \in Roles}]
    /\ request.method \in route_methods(request.path)
    /\ gw_pc = "received"
    /\ gw_decision = "none"
    /\ gw_status = 0
    /\ gw_calls = 0
    /\ gw_outcome = NoOutcome

NextGateway ==
    \/ gateway_authorize
    \/ gateway_forward


(***************************************************************************)
(* reservation-service: create_reservation, update_reservation_status and  *)
(* flight-service: update_seat_availability                                *)
(***************************************************************************)
PENDING == "pending"
CONFIRMED == "confirmed"
CHECKED_IN == "checked_in"
CANCELLED == "cancelled"
NO_SHOW == "no_show"
ReservationStatus == {PENDING, CONFIRMED, CHECKED_IN, CANCELLED, NO_SHOW}

\* Status.in_(["confirmed", "checked_in"])
ActiveStatuses == {CONFIRMED, CHECKED_IN}

Passengers == {"12345678", "87654321"}
\* the one flight the requests are about
FlightNumber == "AV101"
\* reservation codes generate_reservation_code can return
Codes == 1..MaxReservations
\* two requests can be inside their handlers at the same time
Slots == {1, 2}

\* a seat "<row><letter>" is the pair <<row, index of the letter from 'A'>>
NoSeat == <<0, 0>>
PreferredSeats == {<<1, 1>>}
\* Flight.total_seats of the flight
total_seats == 2

Rows == 1..Len(reservations)

\* the rows of the flight with status confirmed or checked_in
ActiveRows == {i \in Rows : reservations[i].status \in ActiveStatuses}

\* assign_seat, second half: row = count // 6 + 1, letter = chr(65 + count % 6)
\* the seat is computed from the count including the new reservation
next_seat_bad_counts_itself(existing_seats) ==
    <<((existing_seats + 1) \div 6) + 1, (existing_seats + 1) % 6>>
next_seat(existing_seats) ==
    <<(existing_seats \div 6) + 1, existing_seats % 6>>

\* assign_seat(flight_number, db, preferred_seat)
assign_seat(preferred_seat) ==
    IF /\ preferred_seat # NoSeat
       /\ ~\E i \in ActiveRows : reservations[i].seat_number = preferred_seat
    THEN preferred_seat
    ELSE next_seat(Cardinality(ActiveRows))

\* check_existing_reservation: an active row of this passenger on the flight
\* the filter on the status forgets checked_in
existing_reservation_bad_confirmed_only(passenger) ==
    \E i \in Rows : /\ reservations[i].status = CONFIRMED
                    /\ reservations[i].passenger_identification = passenger
existing_reservation(passenger) ==
    \E i \in ActiveRows : reservations[i].passenger_identification = passenger

RowOfCode(code) ==
    {i \in Rows : reservations[i].reservation_code = code}

\* generate_reservation_code, repeated until no row has the code: the codes
\* being names only, the one returned is taken to be the first without a row
fresh_code ==
    CHOOSE code \in Codes :
        /\ RowOfCode(code) = {}
        /\ \A other \in Codes : RowOfCode(other) = {} => code <= other

\* a handler and its local variables; flight_info and passenger_info tell
\* whether the verification returned a record (TRUE) or None (FALSE)
IdleHandler == [kind |-> "none", pc |-> "idle", passenger |-> "", seat |-> NoSeat,
                code |-> 0, new_status |-> "",
                flight_info |-> FALSE, passenger_info |-> FALSE]

\* what a handler answers: the kind of request and the status code
Answer(kind, status_code) == [kind |-> kind, status_code |-> status_code]

\* POST /api/v1/reservations arrives; the handler awaits verify_flight_exists
create_reservation_begin(h) ==
    /\ handlers[h].pc = "idle"
    /\ started < MaxStarted
    /\ started' = started + 1
    /\ \E passenger \in Passengers, seat \in {NoSeat} \cup PreferredSeats :
          handlers' = [handlers EXCEPT ![h] =
              [IdleHandler EXCEPT !.kind = "create", !.pc = "verify_flight",
                                  !.passenger = passenger, !.seat = seat]]
    /\ UNCHANGED <<reservations, available_seats, seat_calls, response>>
    /\ UNCHANGED <<cbVars, gwVars>>

\* verify_flight_exists returned: None -> 404, else await verify_passenger_exists
\* the check "if not flight_info" is missing
create_reservation_flight_verified_bad_no_check(h) ==
    /\ handlers[h].pc = "verify_flight"
    /\ \E found \in BOOLEAN :
          /\ handlers' = [handlers EXCEPT ![h].pc = "verify_passenger",
                                          ![h].flight_info = found]
          /\ UNCHANGED response
    /\ UNCHANGED <<reservations, available_seats, seat_calls, started>>
    /\ UNCHANGED <<cbVars, gwVars>>
create_reservation_flight_verified(h) ==
    /\ handlers[h].pc = "verify_flight"
    /\ \E found \in BOOLEAN :
          IF found
          THEN /\ handlers' = [handlers EXCEPT ![h].pc = "verify_passenger",
                                               ![h].flight_info = TRUE]
               /\ UNCHANGED response
          ELSE /\ handlers' = [handlers EXCEPT ![h] = IdleHandler]
               /\ response' = Answer("create", 404)
    /\ UNCHANGED <<reservations, available_seats, seat_calls, started>>
    /\ UNCHANGED <<cbVars, gwVars>>

\* verify_passenger_exists returned: None -> 404; else, with no await in
\* between: duplicate check (409), code generation, assign_seat, insert with
\* status confirmed; then the handler awaits update_flight_seats(-1).
\* A failing database call ends the request with 500 before the insert.
create_reservation_persist(h) ==
    /\ handlers[h].pc = "verify_passenger"
    /\ \E found \in BOOLEAN, db_ok \in BOOLEAN :
          IF ~found
          THEN /\ handlers' = [handlers EXCEPT ![h] = IdleHandler]
               /\ response' = Answer("create", 404)
               /\ UNCHANGED reservations
          ELSE IF ~db_ok
          THEN /\ handlers' = [handlers EXCEPT ![h] = IdleHandler]
               /\ response' = Answer("create", 500)
               /\ UNCHANGED reservations
          ELSE IF existing_reservation(handlers[h].passenger)
          THEN /\ handlers' = [handlers EXCEPT ![h] = IdleHandler]
               /\ response' = Answer("create", 409)
               /\ UNCHANGED reservations
          ELSE /\ Len(reservations) < MaxReservations
               /\ reservations' = Append(reservations,
                     [reservation_code |-> fresh_code,
                      passenger_identification |-> handlers[h].passenger,
                      flight_number |-> FlightNumber,
                      seat_number |-> assign_seat(handlers[h].seat),
                      status |-> CONFIRMED,
                      checked_in |-> FALSE])
               /\ handlers' = [handlers EXCEPT ![h].pc = "decrement_seats",
                                               ![h].passenger_info = TRUE,
                                               ![h].code = fresh_code]
               /\ UNCHANGED response
    /\ UNCHANGED <<available_seats, seat_calls, started>>
    /\ UNCHANGED <<cbVars, gwVars>>

\* flight-service update_seat_availability: the new available_seats, or the
\* old one when the change is refused with 400
update_seat_availability(seats_change) ==
    LET new_available == available_seats + seats_change
    IN  IF new_available < 0 \/ new_available > total_seats
        THEN available_seats
        ELSE new_available

\* update_flight_seats(flight_number, seats_change): the PATCH reaches the
\* flight service or fails in transport; the result is not looked at
update_flight_seats(h, seats_change) ==
    /\ seat_calls' = [seat_calls EXCEPT ![handlers[h].code] =
          IF seats_change < 0 THEN [@ EXCEPT !.dec = @ + 1]
          ELSE [@ EXCEPT !.inc = @ + 1]]
    /\ \E delivered \in BOOLEAN :
          available_seats' = IF delivered THEN update_seat_availability(seats_change)
                             ELSE available_seats

\* await update_flight_seats(flight_number, -1) returned; answer 201
\* a seat update that did not go through undoes the reservation: 500
create_reservation_finish_bad_rolls_back(h) ==
    /\ handlers[h].pc = "decrement_seats"
    /\ update_flight_seats(h, -1)
    /\ handlers' = [handlers EXCEPT ![h] = IdleHandler]
    /\ IF available_seats' = available_seats
       THEN /\ response' = Answer("create", 500)
            /\ reservations' = [i \in Rows |->
                  IF reservations[i].reservation_code = handlers[h].code
                  THEN [reservations[i] EXCEPT !.status = CANCELLED]
                  ELSE reservations[i]]
       ELSE /\ response' = Answer("create", 201)
            /\ UNCHANGED reservations
    /\ UNCHANGED started
    /\ UNCHANGED <<cbVars, gwVars>>
create_reservation_finish(h) ==
    /\ handlers[h].pc = "decrement_seats"
    /\ update_flight_seats(h, -1)
    /\ handlers' = [handlers EXCEPT ![h] = IdleHandler]
    /\ response' = Answer("create", 201)
    /\ UNCHANGED <<reservations, started>>
    /\ UNCHANGED <<cbVars, gwVars>>

\* "Si cancela, liberar asiento": the condition of the seat increment
\* every cancellation releases a seat, whatever the old status
releases_seat_bad_any_old_status(new_status, old_status) ==
    new_status = CANCELLED
releases_seat(new_status, old_status) ==
    new_status = CANCELLED /\ old_status \in ActiveStatuses

\* PUT /api/v1/reservations/{code}/status: lookup (404), status validation
\* (400), then the row gets the new status whatever the old one was; a
\* cancellation of an active row goes on to await update_flight_seats(+1)
update_reservation_status(h) ==
    /\ handlers[h].pc = "idle"
    /\ started < MaxStarted
    /\ started' = started + 1
    /\ \E code \in Codes, new_status \in ReservationStatus \cup {"bogus"} :
          IF RowOfCode(code) = {}
          THEN /\ response' = Answer("update", 404)
               /\ UNCHANGED <<reservations, handlers>>
          ELSE IF new_status \notin ReservationStatus
          THEN /\ response' = Answer("update", 400)
               /\ UNCHANGED <<reservations, handlers>>
          ELSE LET i == CHOOSE j \in RowOfCode(code) : TRUE
                   old_status == reservations[i].status
               IN  /\ reservations' = [reservations EXCEPT ![i] =
                          [@ EXCEPT !.status = new_status,
                                    !.checked_in = (new_status = CHECKED_IN) \/ @]]
                   /\ IF releases_seat(new_status, old_status)
                      THEN /\ handlers' = [handlers EXCEPT ![h] =
                                 [IdleHandler EXCEPT !.kind = "update",
                                                     !.pc = "increment_seats",
                                                     !.code = code,
                                                     !.new_status = new_status]]
                           /\ UNCHANGED response
                      ELSE /\ response' = Answer("update", 200)
                           /\ UNCHANGED handlers
    /\ UNCHANGED <<available_seats, seat_calls>>
    /\ UNCHANGED <<cbVars, gwVars>>

\* await update_flight_seats(flight_number, 1) returned; answer 200
update_reservation_status_finish(h) ==
    /\ handlers[h].pc = "increment_seats"
    /\ update_flight_seats(h, 1)
    /\ handlers' = [handlers EXCEPT ![h] = IdleHandler]
    /\ response' = Answer("update", 200)
    /\ UNCHANGED <<reservations, started>>
    /\ UNCHANGED <<cbVars, gwVars>>

\* create_reservation from the request to its answer, when no other request
\* is being handled meanwhile; no preferred seat is asked for.  The code
\* generated is one no row has yet.
SeatPassengers == 1..MaxCreations

create_reservation(passenger) ==
    /\ \A h \in Slots : handlers[h].pc = "idle"
    /\ \E flight_info \in BOOLEAN, passenger_info \in BOOLEAN :
          IF ~flight_info \/ ~passenger_info
          THEN /\ response' = Answer("create", 404)
               /\ UNCHANGED <<reservations, seat_calls, available_seats>>
          ELSE IF existing_reservation(passenger)
          THEN /\ response' = Answer("create", 409)
               /\ UNCHANGED <<reservations, seat_calls, available_seats>>
          ELSE LET code == Len(reservations) + 1
               IN  /\ Len(reservations) < MaxCreations
                   /\ reservations' = Append(reservations,
                         [reservation_code |-> code,
                          passenger_identification |-> passenger,
                          flight_number |-> FlightNumber,
                          seat_number |-> assign_seat(NoSeat),
                          status |-> CONFIRMED,
                          checked_in |-> FALSE])
                   /\ seat_calls' = [seat_calls EXCEPT ![code].dec = @ + 1]
                   /\ \E delivered \in BOOLEAN :
                         available_seats' = IF delivered
                                            THEN update_seat_availability(-1)
                                            ELSE available_seats
                   /\ response' = Answer("create", 201)
    /\ UNCHANGED <<handlers, started>>
    /\ UNCHANGED <<cbVars, gwVars>>

ReservationsIdle ==
    /\ reservations = << >>
    /\ handlers = [h \in Slots |-> IdleHandler]
    /\ available_seats = total_seats
    /\ seat_calls = [c \in Codes |-> [dec |-> 0, inc |-> 0]]
    /\ response = Answer("none", 0)
    /\ started = 0

InitReservations == ReservationsIdle

NextReservations ==
    \/ \E h \in Slots : create_reservation_begin(h)
    \/ \E h \in Slots : create_reservation_flight_verified(h)
    \/ \E h \in Slots : create_reservation_persist(h)
    \/ \E h \in Slots : create_reservation_finish(h)
    \/ \E h \in Slots : update_reservation_status(h)
    \/ \E h \in Slots : update_reservation_status_finish(h)

Init == InitCB /\ GatewayIdle /\ ReservationsIdle

Next == NextCB

Spec == Init /\ [][Next]_vars

InitAuth == InitCB /\ InitGateway /\ ReservationsIdle

SpecAuth == InitAuth /\ [][NextGateway]_vars

\* database_circuit_breaker called from pool threads, every call failing
SpecThreads == Init /\ [][NextThreads]_vars

\* database_circuit_breaker called from pool threads, the request counter
\* being read and written in two steps
SpecCounters == Init /\ [][NextCounters]_vars

\* the http_circuit_breaker instance, used through http_request and get_stats
SpecHttp == Init /\ [][NextHttp]_vars

InitRes == InitCB /\ GatewayIdle /\ InitReservations

SpecRes == InitRes /\ [][NextReservations]_vars

\* one request at a time: each handler runs to its answer before the next
NextReservationsSeq ==
    \/ create_reservation_begin(1)
    \/ create_reservation_flight_verified(1)
    \/ create_reservation_persist(1)
    \/ create_reservation_finish(1)
    \/ update_reservation_status(1)
    \/ update_reservation_status_finish(1)

SpecResSeq == InitRes /\ [][NextReservationsSeq]_vars

\* creations only, one after the other, on a flight without reservations
InitSeats ==
    /\ InitCB
    /\ GatewayIdle
    /\ reservations = << >>
    /\ handlers = [h \in Slots |-> IdleHandler]
    /\ available_seats = total_seats
    /\ seat_calls = [c \in 1..MaxCreations |-> [dec |-> 0, inc |-> 0]]
    /\ response = Answer("none", 0)
    /\ started = 0

\* A request comes from a passenger who has a reservation already or from
\* one of the first MaxNewcomers passengers who have none.
KnownPassengers == {reservations[i].passenger_identification : i \in Rows}
Newcomers ==
    LET unused == SeatPassengers \ KnownPassengers
    IN  {p \in unused : Cardinality({q \in unused : q < p}) < MaxNewcomers}

NextSeats ==
    \E passenger \in KnownPassengers \cup Newcomers : create_reservation(passenger)

SpecSeats == InitSeats /\ [][NextSeats]_vars

(***************************************************************************)
(* The breaker in a run without end: calls keep arriving and time keeps    *)
(* passing.  The counters stop at MaxRequests (no decision of the breaker  *)
(* reads them beyond failure_threshold) and the clock is kept relative to  *)
(* last_failure_time once it has reached MaxTime.                          *)
(***************************************************************************)
\* n += 1, up to the bound
capped(n) == IF n < MaxRequests THEN n + 1 ELSE n

\* one tick of time.time(); at MaxTime the tick moves last_failure_time
\* back instead, which leaves time.time() - last_failure_time one larger
time_passes ==
    /\ IF now < MaxTime
       THEN /\ now' = now + 1
            /\ UNCHANGED last_failure_time
       ELSE /\ now' = now
            /\ last_failure_time' = IF last_failure_time \in {None, 0}
                                    THEN last_failure_time
                                    ELSE last_failure_time - 1
    /\ last_event' = Event("tick", 0)
    /\ UNCHANGED <<state, failure_count, success_count, total_requests, pc,
                   invocations, streak>>
    /\ UNCHANGED <<stats, stats_queries, loaded>>
    /\ UNCHANGED <<gwVars, resVars>>

\* call, up to the start of the wrapped operation
\* the reset is never attempted: an OPEN breaker raises whatever the time
call_arrives_bad_no_reset(c) ==
    /\ pc[c] = "idle"
    /\ total_requests' = capped(total_requests)
    /\ state' = state
    /\ IF state = OPEN
       THEN /\ pc' = pc
            /\ invocations' = invocations
            /\ last_event' = Event("rejected", c)
       ELSE /\ pc' = [pc EXCEPT ![c] = "call"]
            /\ invocations' = capped(invocations)
            /\ last_event' = Event("invoked", c)
    /\ UNCHANGED <<failure_count, last_failure_time, success_count, now, streak>>
    /\ UNCHANGED <<stats, stats_queries, loaded>>
    /\ UNCHANGED <<gwVars, resVars>>
call_arrives(c) ==
    /\ pc[c] = "idle"
    /\ total_requests' = capped(total_requests)
    /\ state' = entry_state
    /\ IF entry_rejected
       THEN /\ pc' = pc
            /\ invocations' = invocations
            /\ last_event' = Event("rejected", c)
       ELSE /\ pc' = [pc EXCEPT ![c] = "call"]
            /\ invocations' = capped(invocations)
            /\ last_event' = Event("invoked", c)
    /\ UNCHANGED <<failure_count, last_failure_time, success_count, now, streak>>
    /\ UNCHANGED <<stats, stats_queries, loaded>>
    /\ UNCHANGED <<gwVars, resVars>>

\* func returned: _on_success
operation_returns(c) ==
    /\ pc[c] = "call"
    /\ failure_count' = 0
    /\ success_count' = capped(success_count)
    /\ state' = _on_success_state
    /\ pc' = [pc EXCEPT ![c] = "idle"]
    /\ streak' = 0
    /\ last_event' = Event("success", c)
    /\ UNCHANGED <<last_failure_time, total_requests, now, invocations>>
    /\ UNCHANGED <<stats, stats_queries, loaded>>
    /\ UNCHANGED <<gwVars, resVars>>

\* func raised self.expected_exception: _on_failure
operation_raises(c) ==
    /\ pc[c] = "call"
    /\ failure_count' = capped(failure_count)
    /\ last_failure_time' = now
    /\ state' = _on_failure_state(failure_count + 1)
    /\ pc' = [pc EXCEPT ![c] = "idle"]
    /\ streak' = capped(streak)
    /\ last_event' = Event("failure", c)
    /\ UNCHANGED <<success_count, total_requests, now, invocations>>
    /\ UNCHANGED <<stats, stats_queries, loaded>>
    /\ UNCHANGED <<gwVars, resVars>>

\* func raised another exception: it propagates
operation_raises_other(c) ==
    /\ pc[c] = "call"
    /\ pc' = [pc EXCEPT ![c] = "idle"]
    /\ last_event' = Event("other_error", c)
    /\ UNCHANGED <<state, failure_count, last_failure_time, success_count,
                   total_requests, now, invocations, streak>>
    /\ UNCHANGED <<stats, stats_queries, loaded>>
    /\ UNCHANGED <<gwVars, resVars>>

NextLive ==
    \/ time_passes
    \/ \E c \in Callers : call_arrives(c)
    \/ \E c \in Callers : operation_returns(c)
    \/ \E c \in Callers : operation_raises(c)
    \/ \E c \in Callers : operation_raises_other(c)

\* time passes, calls arrive, and every wrapped operation comes to an end
FairLive ==
    /\ WF_vars(time_passes)
    /\ WF_vars(\E c \in Callers : call_arrives(c))
    /\ \A c \in Callers :
          WF_vars(operation_returns(c) \/ operation_raises(c)
                    \/ operation_raises_other(c))

SpecLive == Init /\ [][NextLive]_vars /\ FairLive

\* the gateway handles one request for the reservation service while the
\* reservation service handles requests, one at a time
InitLayers ==
    /\ InitCB
    /\ request \in {[path |-> Api("reservations"), method |-> "POST",
                     claims |-> Claims("agent")],
                    [path |-> Api("reservations") \o <<"/x">>, method |-> "PUT",
                     claims |-> Claims("agent")]}
    /\ gw_pc = "received"
    /\ gw_decision = "none"
    /\ gw_status = 0
    /\ gw_calls = 0
    /\ gw_outcome = NoOutcome
    /\ ReservationsIdle

NextLayers ==
    \/ gateway_authorize
    \/ gateway_forward
    \/ create_reservation_begin(1)
    \/ create_reservation_flight_verified(1)
    \/ create_reservation_persist(1)
    \/ create_reservation_finish(1)
    \/ update_reservation_status(1)
    \/ update_reservation_status_finish(1)

SpecLayers == InitLayers /\ [][NextLayers]_vars

TypeOK ==
    /\ state \in CircuitState
    /\ failure_count \in 0..MaxRequests
    /\ last_failure_time \in {None} \cup (0..MaxTime)
    /\ success_count \in 0..MaxRequests
    /\ total_requests \in 0..MaxRequests
    /\ now \in 0..MaxTime
    /\ pc \in [Callers -> {"idle", "call", "async_call", "http_request",
                           "on_failure_store", "on_failure_check", "call_store"}]
    /\ loaded \in [Callers -> 0..MaxRequests]
    /\ invocations \in 0..MaxRequests
    /\ streak \in 0..MaxRequests
    /\ stats_queries \in 0..MaxQueries

(***************************************************************************)
(* Claims about the CircuitBreaker                                         *)
(***************************************************************************)
InFlight == {c \in Callers : pc[c] # "idle"}

\* a call or async_call arrives in this step
Arrives == total_requests' = total_requests + 1
\* the wrapped operation is started in this step
Invoked == invocations' = invocations + 1
\* a counted failure / a success is reported in this step
FailureReported == streak' = streak + 1
SuccessReported == success_count' = success_count + 1

\* recovery_timeout has not yet elapsed since the last failure
WithinTimeout == last_failure_time # None /\ now - last_failure_time <= recovery_timeout

C2_SingleProbe ==
    [][ (state = HALF_OPEN /\ InFlight # {} /\ Arrives) => ~Invoked ]_vars

\* C7: a call arriving while the breaker is OPEN and more than
\* recovery_timeout after last_failure_time moves the breaker to HALF_OPEN
\* and starts the wrapped operation exactly once.
C7_ResetAfterTimeout ==
    [][ (Arrives /\ state = OPEN /\ now - last_failure_time > recovery_timeout)
          => /\ state' = HALF_OPEN
             /\ invocations' = invocations + 1
             /\ Cardinality(InFlight') = Cardinality(InFlight) + 1 ]_vars

C7_Witness ==
    /\ last_event.op = "invoked"
    /\ last_event.pre = OPEN
    /\ last_event.elapsed
    /\ state = HALF_OPEN

\* C8: a counted failure reported while the breaker is HALF_OPEN moves the
\* breaker to OPEN.
C8_HalfOpenFailureOpens ==
    [][ (FailureReported /\ state = HALF_OPEN) => state' = OPEN ]_vars

\* C9: a success reported while the breaker is HALF_OPEN moves the breaker
\* to CLOSED and sets failure_count to 0.
C9_HalfOpenSuccessCloses ==
    [][ (SuccessReported /\ state = HALF_OPEN)
          => (state' = CLOSED /\ failure_count' = 0) ]_vars

C9_Witness ==
    /\ last_event.op = "success"
    /\ last_event.pre = HALF_OPEN
    /\ last_event.pre_count >= failure_threshold
    /\ state = CLOSED
    /\ failure_count = 0

\* C10 (as stated): the breaker is OPEN exactly when failure_count has
\* reached failure_threshold and recovery_timeout has not elapsed since
\* last_failure_time.
C10_OpenIffTrippedWithinTimeout ==
    (state = OPEN) <=> (failure_count >= failure_threshold /\ WithinTimeout)

\* C10 (amended): whenever failure_count has reached failure_threshold and
\* recovery_timeout has not elapsed since last_failure_time, the breaker is
\* OPEN.
C10_TrippedWithinTimeoutIsOpen ==
    (failure_count >= failure_threshold /\ WithinTimeout) => state = OPEN

C10_Witness ==
    /\ last_event.op = "failure"
    /\ last_event.pre = HALF_OPEN
    /\ failure_count >= failure_threshold
    /\ WithinTimeout
    /\ state = OPEN

\* caller c leaves the breaker in this step, the step being reported as op
Completes(c, op) ==
    /\ pc[c] # "idle"
    /\ pc'[c] = "idle"
    /\ last_event'.op = op
    /\ last_event'.caller = c

C12_UncountedErrorIsNeutral ==
    [][ \A c \in Callers :
          Completes(c, "other_error")
             => UNCHANGED <<state, failure_count, last_failure_time>> ]_vars

\* an uncounted error of the probe leaves the breaker HALF_OPEN
C12_Witness ==
    /\ last_event.op = "other_error"
    /\ last_event.pre = HALF_OPEN
    /\ last_event.pre_count >= failure_threshold
    /\ state = HALF_OPEN
    /\ failure_count = last_event.pre_count

\* C14: from every state, a step of call has the effect on the breaker that
\* the code of async_call prescribes, and a step of async_call the effect
\* that the code of call prescribes: the same state, the same count of
\* requests, the same rejection or start of the wrapped operation.  (Both
\* report the outcome through the same _on_success and _on_failure.)
C14_SyncAndAsyncAgree ==
    [][ \A c \in Callers :
          /\ call(c) => /\ state' = async_entry_state
                        /\ (pc' = pc) <=> async_entry_rejected
                        /\ (invocations' = invocations) <=> async_entry_rejected
          /\ async_call(c) => /\ state' = entry_state
                              /\ (pc' = pc) <=> entry_rejected
                              /\ (invocations' = invocations) <=> entry_rejected
       ]_vars

\* an async_call made the OPEN -> HALF_OPEN reset while a sync call was in flight
C14_Witness ==
    \E c, d \in Callers :
        /\ pc[c] = "async_call"
        /\ pc[d] = "call"
        /\ last_event.op = "invoked"
        /\ last_event.caller = c
        /\ last_event.pre = OPEN
        /\ state = HALF_OPEN

\* C13: when an http_request is over, a response with a 4xx status has left
\* failure_count and state as they were, and failure_count has increased
\* only for a transport failure, a timeout or a response with a 5xx status.
C13_ClientErrorIsNeutral ==
    [][ \A c \in Callers :
          (pc[c] = "http_request" /\ pc'[c] = "idle")
          => LET o == last_event'.cause
             IN /\ (o.kind = "response" /\ o.status \in 400..499)
                      => UNCHANGED <<failure_count, state>>
                /\ failure_count' > failure_count
                      => \/ o.kind \in {"TimeoutException", "ConnectError"}
                         \/ (o.kind = "response" /\ o.status >= 500) ]_vars

\* C15: a get_stats query changes none of the fields of the breaker, and a
\* query that follows another one with no call in between returns the same
\* dictionary.
C15_StatsIsIdempotent ==
    [][ (stats_queries' = stats_queries + 1)
          => /\ UNCHANGED <<state, failure_count, last_failure_time,
                            success_count, total_requests>>
             /\ stats_queries > 0 => stats' = stats ]_vars

\* two queries in a row, of a breaker that has served one success in three
C15_Witness ==
    /\ stats_queries = 2
    /\ last_event.op = "get_stats"
    /\ stats.total_requests = 3
    /\ stats.uptime_percentage = 3333
    /\ stats.state = state
(***************************************************************************)
(* Claims about the authorization decision                                 *)
(***************************************************************************)
\* the path is one of the public routes themselves
IsAPublicRoute(path) == \E i \in 1..Len(public_routes) : path = public_routes[i]

MatchesProtectedRoute(path) ==
    \E i \in 1..Len(PROTECTED_ROUTES) : StartsWith(path, PROTECTED_ROUTES[i].route)

\* C5: a request without claims, whose path is not one of the public routes
\* and which is not a GET on a publicly searchable resource, is answered
\* Unauthenticated (401) and nothing is sent downstream.
C5_AnonymousIsUnauthenticated ==
    ( /\ gw_decision # "none"
      /\ ~request.claims.present
      /\ ~IsAPublicRoute(request.path)
      /\ ~is_public_get(request.path, request.method) )
    => (gw_decision = "Unauthenticated" /\ gw_status = 401 /\ gw_calls = 0)

\* C6: a request with non-admin claims on a path under a route-permission
\* prefix (and not answered by the public-GET rule) is allowed exactly when
\* its role is in the role set of that prefix and method, and is Forbidden
\* otherwise.
C6_AllowIffRoleInResolvedSet ==
    ( /\ gw_decision # "none"
      /\ request.claims.present
      /\ request.claims.role # "admin"
      /\ MatchesProtectedRoute(request.path)
      /\ ~is_public_get(request.path, request.method) )
    => /\ gw_decision = "Allow"
            <=> protected_decision(request.path, request.method, request.claims.role)
       /\ gw_decision # "Allow" => gw_decision = "Forbidden"

\* C16: a GET on a path under /api/v1/flights, /api/v1/airports,
\* /api/v1/aircraft or /api/v1/crew is allowed, whatever the claims, absent
\* claims included.
C16_PublicGetIsAllowed ==
    ( /\ gw_decision # "none"
      /\ request.method = "GET"
      /\ Under(request.path, {"flights", "airports", "aircraft", "crew"}) )
    => gw_decision = "Allow"

\* a GET of one crew member without a token was allowed and forwarded
C16_Witness ==
    /\ gw_decision = "Allow"
    /\ request.method = "GET"
    /\ request.path = Api("crew") \o <<"/x">>
    /\ ~request.claims.present
    /\ gw_calls = 1

\* C17: a request on a path that starts with one of the public routes
\* (health, root, login, register) is allowed, whatever its method and its
\* claims, absent claims included.
C17_PublicRouteIsAllowed ==
    ( /\ gw_decision # "none"
      /\ \E i \in 1..Len(public_routes) : StartsWith(request.path, public_routes[i]) )
    => gw_decision = "Allow"

\* a login posted without a token was allowed
C17_Witness ==
    /\ gw_decision = "Allow"
    /\ request.method = "POST"
    /\ request.path = Api("auth/login")
    /\ ~request.claims.present

\* C18: a request with the claims of an admin is allowed on every path and
\* with every method.
C18_AdminIsAllowed ==
    ( /\ gw_decision # "none"
      /\ request.claims.present
      /\ request.claims.role = "admin" )
    => gw_decision = "Allow"

\* DELETE /api/v1/users/x by an admin was allowed
C18_Witness ==
    /\ gw_decision = "Allow"
    /\ request.method = "DELETE"
    /\ request.path = Api("users") \o <<"/x">>
    /\ request.claims = Claims("admin")

\* C19: on the paths under /api/v1/passengers and /api/v1/reservations, a GET
\* with claims is allowed only for role admin, and a POST, PUT or DELETE with
\* claims is allowed for the roles admin and agent and for no other role.
C19_PassengerAndReservationRoles ==
    ( /\ gw_decision # "none"
      /\ request.claims.present
      /\ Under(request.path, {"passengers", "reservations"}) )
    => /\ request.method = "GET"
            => (gw_decision = "Allow" => request.claims.role = "admin")
       /\ request.method \in {"POST", "PUT", "DELETE"}
            => (gw_decision = "Allow" <=> request.claims.role \in {"admin", "agent"})

\* the request is one that the authorization rules turn away: not on one of
\* the public routes themselves, not a public GET, and either without claims
\* or with a role that is neither admin nor in the role set of its route
Denied ==
    /\ ~IsAPublicRoute(request.path)
    /\ ~is_public_get(request.path, request.method)
    /\ \/ ~request.claims.present
       \/ /\ request.claims.role # "admin"
          /\ ~protected_decision(request.path, request.method, request.claims.role)

C21_GatewayErrorMapping ==
    (gw_pc = "done" /\ gw_decision = "Allow")
    => /\ (gw_status = 503 /\ gw_outcome.kind # "response") <=> gw_calls = 0
       /\ gw_outcome.kind \in {"RequestError", "Exception"} => gw_status = 500
       /\ gw_outcome.kind = "response" => gw_status = gw_outcome.status
(***************************************************************************)
(* Claims about the reservation table                                      *)
(***************************************************************************)
\* C3: at most one row with status confirmed or checked_in per
\* (passenger_identification, flight_number).
C3_OneActivePerPassengerAndFlight ==
    \A i, j \in ActiveRows :
        ( /\ reservations[i].passenger_identification = reservations[j].passenger_identification
          /\ reservations[i].flight_number = reservations[j].flight_number )
        => i = j

\* C4: at most one row with status confirmed or checked_in per
\* (flight_number, seat_number), requests being handled one at a time.
C4_OneActivePerFlightAndSeat ==
    \A i, j \in ActiveRows :
        ( /\ reservations[i].flight_number = reservations[j].flight_number
          /\ reservations[i].seat_number = reservations[j].seat_number )
        => i = j

\* the passenger has a row of the flight with status confirmed or checked_in
HasActiveReservation(passenger) ==
    \E i \in Rows : /\ reservations[i].status \in {CONFIRMED, CHECKED_IN}
                    /\ reservations[i].passenger_identification = passenger
                    /\ reservations[i].flight_number = FlightNumber

\* C22: when create_reservation comes to its duplicate check for a passenger
\* who has a confirmed or checked_in reservation of the flight, the request
\* ends there: it writes no row and sends no seat update, and it is answered
\* 409 (or 404 / 500 when the passenger lookup or the database failed before
\* the check); and 409 is answered to no other creation.
C22_DuplicateIsRejected ==
    [][ \A h \in Slots :
          /\ ( /\ handlers[h].pc = "verify_passenger"
               /\ handlers'[h] # handlers[h]
               /\ HasActiveReservation(handlers[h].passenger) )
             => /\ reservations' = reservations
                /\ seat_calls' = seat_calls
                /\ handlers'[h] = IdleHandler
                /\ response'.kind = "create"
                /\ response'.status_code \in {409, 404, 500}
          /\ ( /\ handlers[h].pc = "verify_passenger"
               /\ handlers'[h] = IdleHandler
               /\ response'.status_code = 409 )
             => HasActiveReservation(handlers[h].passenger) ]_vars

\* a second creation for a passenger who has checked in was answered 409
C22_Witness ==
    /\ response = Answer("create", 409)
    /\ Len(reservations) = 1
    /\ reservations[1].status = CHECKED_IN
    /\ seat_calls[reservations[1].reservation_code].dec = 1

\* C23: on a flight that starts without reservations, the k-th creation in a
\* row that succeeds, none asking for a seat, gets row (k-1) div 6 + 1 and
\* the letter number (k-1) mod 6 counted from 'A': 1A, 1B, 1C, 1D, 1E, 1F,
\* 2A for k = 1..7.
C23_SeatsInOrder ==
    LET first_seven == << <<1, 0>>, <<1, 1>>, <<1, 2>>, <<1, 3>>, <<1, 4>>,
                          <<1, 5>>, <<2, 0>> >>
    IN  \A k \in Rows :
          /\ reservations[k].seat_number = <<((k - 1) \div 6) + 1, (k - 1) % 6>>
          /\ k <= 7 => reservations[k].seat_number = first_seven[k]

\* the seventh creation got seat 2A
C23_Witness ==
    /\ Len(reservations) >= 7
    /\ reservations[7].seat_number = <<2, 0>>
    /\ reservations[6].seat_number = <<1, 5>>
    /\ \A k \in 1..7 : reservations[k].status = CONFIRMED

\* C24: the status of a row becomes cancelled only from confirmed or
\* checked_in; a cancellation asked for a row in another status leaves the
\* row as it was.
C24_CancelOnlyFromActive ==
    [][ \A i \in Rows :
          (reservations'[i].status = CANCELLED /\ reservations[i].status # CANCELLED)
          => reservations[i].status \in {CONFIRMED, CHECKED_IN} ]_vars

\* row i goes from confirmed or checked_in to cancelled in this step
Cancelled(i) ==
    /\ reservations[i].status \in {CONFIRMED, CHECKED_IN}
    /\ reservations'[i].status = CANCELLED

\* C25: the step that takes a row from confirmed or checked_in to cancelled
\* leaves exactly one handler about to send the +1 seat update for that
\* reservation; no handler gets to send a +1 otherwise (so not when the row
\* is cancelled already); and the +1 count of a reservation grows only by
\* one at a time, sent by such a handler, which then is done.
C25_OneIncrementPerCancellation ==
    [][ /\ \A i \in Rows :
             Cancelled(i)
             => /\ Cardinality({h \in Slots :
                        /\ handlers[h].pc # "increment_seats"
                        /\ handlers'[h].pc = "increment_seats"
                        /\ handlers'[h].code = reservations[i].reservation_code}) = 1
                /\ seat_calls' = seat_calls
        /\ \A h \in Slots :
             (handlers[h].pc # "increment_seats" /\ handlers'[h].pc = "increment_seats")
             => \E i \in Rows : /\ Cancelled(i)
                                /\ reservations[i].reservation_code = handlers'[h].code
        /\ \A c \in DOMAIN seat_calls :
             seat_calls'[c].inc # seat_calls[c].inc
             => /\ seat_calls'[c].inc = seat_calls[c].inc + 1
                /\ \E h \in Slots : /\ handlers[h].pc = "increment_seats"
                                     /\ handlers[h].code = c
                                     /\ handlers'[h] = IdleHandler ]_vars

\* a reservation was created and cancelled, its one +1 has been sent and the
\* cancellation answered
C25_Witness ==
    /\ Len(reservations) = 1
    /\ reservations[1].status = CANCELLED
    /\ seat_calls[reservations[1].reservation_code] = [dec |-> 1, inc |-> 1]
    /\ \A h \in Slots : handlers[h].pc = "idle"
    /\ response = Answer("update", 200)

\* C26: the status of a row changes only from confirmed to checked_in, or
\* from confirmed or checked_in to cancelled or no_show; a row that is
\* cancelled or no_show keeps its status.
C26_OnlyLifecycleTransitions ==
    [][ \A i \in Rows :
          reservations'[i].status # reservations[i].status
          => \/ /\ reservations[i].status = CONFIRMED
                /\ reservations'[i].status = CHECKED_IN
             \/ /\ reservations[i].status \in {CONFIRMED, CHECKED_IN}
                /\ reservations'[i].status \in {CANCELLED, NO_SHOW} ]_vars

\* the row a handler has written
RowOf(h) == reservations[CHOOSE i \in Rows :
                            reservations[i].reservation_code = handlers[h].code]

\* C27: two create_reservation requests of different passengers that are
\* being handled at the same time, each having written its row, have not
\* written two active rows of the flight with the same seat.
C27_ConcurrentCreationsDistinctSeats ==
    \A h1, h2 \in Slots :
        ( /\ h1 # h2
          /\ handlers[h1].pc = "decrement_seats"
          /\ handlers[h2].pc = "decrement_seats"
          /\ handlers[h1].passenger # handlers[h2].passenger
          /\ RowOf(h1).status \in {CONFIRMED, CHECKED_IN}
          /\ RowOf(h2).status \in {CONFIRMED, CHECKED_IN}
          /\ RowOf(h1).flight_number = RowOf(h2).flight_number )
        => RowOf(h1).seat_number # RowOf(h2).seat_number

\* C28: once every failure report made by the threads is complete, and no
\* success having been reported, failure_count is the number of reports
\* made; and the breaker is OPEN when that number has reached
\* failure_threshold (recovery_timeout not having elapsed since the last).
C28_NoLostFailureReport ==
    (\A c \in Callers : pc[c] \in {"idle", "call"})
    => /\ failure_count = streak
       /\ (streak >= failure_threshold /\ WithinTimeout) => state = OPEN

\* an outbound call of a handler (verify_flight_exists,
\* verify_passenger_exists or update_flight_seats) returns in this step
OutboundCallReturns ==
    \E h \in Slots :
        /\ handlers[h].pc \in {"verify_flight", "verify_passenger",
                               "decrement_seats", "increment_seats"}
        /\ handlers'[h].pc # handlers[h].pc

\* C29: every outbound call of the reservation handlers is a request made to
\* the HTTP breaker (it counts the request, and with it the failure when the
\* call fails), and no seat update is sent while that breaker is OPEN and
\* recovery_timeout has not elapsed.  (The breaker of this specification is
\* http_circuit_breaker.)
C29_OutboundCallsUseBreaker ==
    [][ /\ OutboundCallReturns => total_requests' = total_requests + 1
        /\ (state = OPEN /\ WithinTimeout) => seat_calls' = seat_calls ]_vars

\* C30: a create_reservation that ends with 404 or 409 ends at one of its
\* verifications or at the duplicate check, has written no row and sent no
\* seat update; the passenger is verified only by a handler that found the
\* flight, and the duplicate check is made (409 answered, or a row written)
\* only by a handler that found the flight and, for the row, the passenger.
C30_NoPartialWrites ==
    [][ \A h \in Slots :
          /\ ( /\ handlers[h].kind = "create"
               /\ handlers'[h] = IdleHandler
               /\ response'.status_code \in {404, 409} )
             => /\ handlers[h].pc \in {"verify_flight", "verify_passenger"}
                /\ handlers[h].code = 0
                /\ reservations' = reservations
                /\ seat_calls' = seat_calls
                /\ response'.status_code = 409
                      => (handlers[h].pc = "verify_passenger" /\ handlers[h].flight_info)
          /\ handlers'[h].pc = "verify_passenger" => handlers'[h].flight_info
          /\ handlers'[h].pc = "decrement_seats"
                => (handlers'[h].flight_info /\ handlers'[h].passenger_info)
          /\ Len(reservations') > Len(reservations)
                => \E g \in Slots : /\ handlers[g].pc = "verify_passenger"
                                    /\ handlers'[g].pc = "decrement_seats" ]_vars

\* after one creation that succeeded, a second one was answered 404 and has
\* left the table and the seat updates as they were
C30_Witness ==
    /\ response = Answer("create", 404)
    /\ Len(reservations) = 1
    /\ seat_calls[reservations[1].reservation_code] = [dec |-> 1, inc |-> 0]
    /\ \A c \in DOMAIN seat_calls :
          c # reservations[1].reservation_code => seat_calls[c] = [dec |-> 0, inc |-> 0]
    /\ \A h \in Slots : handlers[h].pc = "idle"
    /\ started = 2

\* C31: when the seat update sent by create_reservation after its insert
\* does not go through (lost in transport, answered with an error or refused
\* by the flight service: the seat counter is left as it was), the request
\* is still answered 201 and the table is left as it was: the row is neither
\* removed nor changed.
C31_SeatUpdateFailureKeepsReservation ==
    [][ \A h \in Slots :
          ( /\ handlers[h].pc = "decrement_seats"
            /\ handlers'[h] # handlers[h]
            /\ available_seats' = available_seats )
          => /\ handlers'[h] = IdleHandler
             /\ response' = Answer("create", 201)
             /\ seat_calls'[handlers[h].code].dec = seat_calls[handlers[h].code].dec + 1
             /\ reservations' = reservations ]_vars

\* the only request so far, a creation, was answered 201 and its row is
\* confirmed, the seat update having been sent without effect
C31_Witness ==
    /\ response = Answer("create", 201)
    /\ started = 1
    /\ Len(reservations) = 1
    /\ reservations[1].status = CONFIRMED
    /\ seat_calls[reservations[1].reservation_code] = [dec |-> 1, inc |-> 0]
    /\ available_seats = total_seats
    /\ \A h \in Slots : handlers[h].pc = "idle"

\* the rows of the flight with status confirmed or checked_in that hold the seat
HoldersOf(seat) ==
    {i \in Rows : /\ reservations[i].status \in {CONFIRMED, CHECKED_IN}
                  /\ reservations[i].flight_number = FlightNumber
                  /\ reservations[i].seat_number = seat}

\* C32: when a creation that asked for a seat writes its row, the seat of
\* the row is the seat asked for exactly when no confirmed or checked_in row
\* of the flight held that seat; when one did, the seat of the row is the
\* row/letter formula seat of the number of confirmed or checked_in rows of
\* the flight.
C32_PreferredSeatIffFree ==
    [][ \A h \in Slots :
          ( /\ handlers[h].pc = "verify_passenger"
            /\ handlers[h].seat # NoSeat
            /\ Len(reservations') = Len(reservations) + 1
            /\ handlers'[h].pc = "decrement_seats" )
          => LET stored == reservations'[Len(reservations')].seat_number
                 count == Cardinality({i \in Rows :
                              /\ reservations[i].status \in {CONFIRMED, CHECKED_IN}
                              /\ reservations[i].flight_number = FlightNumber})
             IN  /\ (stored = handlers[h].seat) <=> (HoldersOf(handlers[h].seat) = {})
                 /\ HoldersOf(handlers[h].seat) # {}
                       => stored = <<(count \div 6) + 1, count % 6>> ]_vars

\* the first route of PROTECTED_ROUTES the path starts with has a table per
\* method, and the table has no entry for the method
MethodUnlisted(path, method) ==
    /\ MatchesProtectedRoute(path)
    /\ LET i == CHOOSE j \in 1..Len(PROTECTED_ROUTES) :
                   /\ StartsWith(path, PROTECTED_ROUTES[j].route)
                   /\ \A k \in 1..(j - 1) : ~StartsWith(path, PROTECTED_ROUTES[k].route)
       IN  /\ PROTECTED_ROUTES[i].permissions.kind = "dict"
           /\ method \notin PROTECTED_ROUTES[i].permissions.methods

\* C33: a request with non-admin claims and a method for which the table of
\* the matching route has no entry (the request being neither on one of the
\* public routes themselves nor a public GET) is Forbidden and answered 403:
\* the table has no GET entry to fall back on, so the role set is empty.
C33_UnlistedMethodIsForbidden ==
    ( /\ gw_decision # "none"
      /\ request.claims.present
      /\ request.claims.role # "admin"
      /\ ~IsAPublicRoute(request.path)
      /\ ~is_public_get(request.path, request.method)
      /\ MethodUnlisted(request.path, request.method) )
    => (gw_decision = "Forbidden" /\ gw_status = 403 /\ gw_calls = 0)

\* C34: a request with non-admin claims whose path starts with no route of
\* PROTECTED_ROUTES (and is neither one of the public routes nor a public
\* GET) is allowed, whatever its role and its method.
C34_UnlistedRouteIsAllowed ==
    ( /\ gw_decision # "none"
      /\ request.claims.present
      /\ request.claims.role # "admin"
      /\ ~MatchesProtectedRoute(request.path)
      /\ ~IsAPublicRoute(request.path)
      /\ ~is_public_get(request.path, request.method) )
    => gw_decision = "Allow"

\* a PUT on /api/v1/auth/me by a passenger was allowed and forwarded
C34_Witness ==
    /\ gw_decision = "Allow"
    /\ request.path = Api("auth/me")
    /\ request.method = "PUT"
    /\ request.claims = Claims("passenger")
    /\ gw_calls = 1

\* handler h gets the answer of the outbound call it awaits at pc
CallReturns(h, at) ==
    /\ handlers[h].pc = at
    /\ handlers'[h] # handlers[h]

\* C35: no outbound call is made a second time.  The gateway sends at most
\* one downstream request for its inbound request and answers as soon as
\* that one is over.  A handler whose flight verification, passenger
\* verification or seat update has returned, whatever the outcome, goes on to
\* the next step or answers, and never awaits the same call again; a seat
\* update adds exactly one call to the count of its reservation, and a
\* reservation gets at most one -1.
C35_NoRetry ==
    [][ /\ gw_calls' <= 1
        /\ gw_calls' # gw_calls => (gw_calls' = gw_calls + 1 /\ gw_pc' = "done")
        /\ \A h \in Slots :
             /\ CallReturns(h, "verify_flight")
                   => /\ handlers'[h].pc \in {"verify_passenger", "idle"}
                      /\ seat_calls' = seat_calls
             /\ CallReturns(h, "verify_passenger")
                   => /\ handlers'[h].pc \in {"decrement_seats", "idle"}
                      /\ seat_calls' = seat_calls
             /\ CallReturns(h, "decrement_seats")
                   => /\ handlers'[h] = IdleHandler
                      /\ seat_calls' = [seat_calls EXCEPT ![handlers[h].code].dec = @ + 1]
             /\ CallReturns(h, "increment_seats")
                   => /\ handlers'[h] = IdleHandler
                      /\ seat_calls' = [seat_calls EXCEPT ![handlers[h].code].inc = @ + 1]
        /\ \A c \in DOMAIN seat_calls : seat_calls'[c].dec <= 1 ]_vars

\* the gateway has answered 503 after its one request failed in transport,
\* and a creation has been answered 404 after its one flight verification
C35_Witness ==
    /\ gw_pc = "done"
    /\ gw_outcome.kind = "RequestError"
    /\ gw_status = 503
    /\ gw_calls = 1
    /\ response = Answer("create", 404)
    /\ started = 1
    /\ reservations = << >>
    /\ \A h \in Slots : handlers[h].pc = "idle"

(***************************************************************************)
(* Further claims about the CircuitBreaker                                 *)
(***************************************************************************)
\* C36: whenever the breaker is HALF_OPEN, failure_count is at least
\* failure_threshold (so that a failure of the probe takes it back to OPEN),
\* calls whose operations were started before the trip included.
C36_HalfOpenHasThresholdFailures ==
    state = HALF_OPEN => failure_count >= failure_threshold

(***************************************************************************)
(* Further claims about the reservation table and the seat counter         *)
(***************************************************************************)
\* C37: for every reservation, the number of +1 seat updates sent for it is
\* never above the number of -1 seat updates sent for it, which is at most
\* one: a seat taken once is not released twice (requests being handled one
\* at a time).
C37_ReleasedAtMostOnce ==
    \A c \in DOMAIN seat_calls :
        /\ seat_calls[c].dec <= 1
        /\ seat_calls[c].inc <= seat_calls[c].dec

\* C38: the number of confirmed or checked_in reservations of a flight is
\* never above the total_seats of the flight, whatever creations succeeded,
\* also when available_seats is 0 and the flight service refuses the -1.
C38_NoOverbooking ==
    Cardinality({i \in Rows : /\ reservations[i].status \in {CONFIRMED, CHECKED_IN}
                              /\ reservations[i].flight_number = FlightNumber})
        <= total_seats

\* C39: in a run in which, from some point on, no wrapped operation raises
\* (time passing, calls arriving and operations coming to an end all
\* along), the breaker is CLOSED from some point on: it stays neither OPEN
\* nor HALF_OPEN for ever, whatever happened before.
C39_EventuallyClosedForGood ==
    (<>[][last_event'.op \notin {"failure", "other_error"}]_vars)
        => <>[](state = CLOSED)

\* the breaker closed again after a trip, the counters of requests having
\* reached their bound and the clock MaxTime
C39_Witness ==
    /\ state = CLOSED
    /\ last_event.op = "success"
    /\ last_event.pre = HALF_OPEN
    /\ total_requests = MaxRequests
    /\ now = MaxTime

\* caller c goes through the head of call in this step
EntersCall(c) == pc[c] = "call_store" /\ pc'[c] # "call_store"

\* C40: success_count is never above total_requests, and neither of them
\* ever decreases; every call adds one to total_requests, the calls turned
\* away by the OPEN breaker included; and a call turned away leaves state,
\* failure_count, success_count and last_failure_time as they were.
C40_CountersAreConsistent ==
    [][ /\ success_count' <= total_requests'
        /\ success_count' >= success_count
        /\ total_requests' >= total_requests
        /\ \A c \in Callers :
             EntersCall(c)
             => /\ total_requests' = total_requests + 1
                /\ last_event'.op = "rejected"
                      => UNCHANGED <<state, failure_count, success_count,
                                     last_failure_time>> ]_vars
====
